---- MODULE Spec2Model ----
(***************************************************************************)
(* A model of the generic resource pool NewPool[T] of new_pool.go.         *)
(*                                                                         *)
(* Two kinds of pool exist in the repository:                              *)
(*   "sync" - the pool returned by New: both maps empty, the mutex a       *)
(*            *sync.Mutex, any number of goroutines calling Acquire,       *)
(*            Release and NumIdle;                                         *)
(*   "mock" - the pool the tests build as a struct literal: the maps       *)
(*            pre-populated, the mutex a MockMutex whose Lock and Unlock   *)
(*            only record the call, one goroutine making one call.         *)
(* Every method is split at the places where the mutex is taken and freed  *)
(* and at every write to a map, so that the states inside a call are       *)
(* states of the model.                                                    *)
(***************************************************************************)
EXTENDS Integers, FiniteSets, TLC

\* ---------------------------------------------------------------- bounds
NumProcs == 2
MaxId == 2
MaxTime == 1
MaxAge == 1
MaxIdleSizeBound == 2
MaxIdleTimeBound == 1

Procs == 1..NumProcs
Resources == 1..MaxId

VARIABLES
    mutexKind,    \* "sync" (New) or "mock" (test literal)
    maxIdleSize,  \* NewPool.maxIdleSize
    maxIdleTime,  \* NewPool.maxIdleTime
    lock,         \* NewPool.lock: in-use map, resource -> checkout time
    unlock,       \* NewPool.unlock: idle map, resource -> idle time
    holder,       \* the sync.Mutex: 0 when free, else the goroutine holding it
    now,          \* time.Now()
    nextId,       \* the creator closure's id counter
    pc,           \* each goroutine's position
    arg,          \* the resource a call works on
    saved,        \* Release's savedTimestamp
    cnt,          \* the value NumIdle returned to Release
    ret,          \* the value the last call returned
    outcome,      \* the exit path the last call took
    snap,         \* the two maps when the running call passed its Lock()
    sweepValid,   \* validTimestamp of the running call (Acquire's sweep, Release's check)
    calls,        \* how often the running call has invoked the creator
    out           \* resources Acquire returned, no Release called on them since

vars == <<mutexKind, maxIdleSize, maxIdleTime, lock, unlock, holder, now, nextId,
          pc, arg, saved, cnt, ret, outcome, snap, sweepValid, calls, out>>

poolCfg == <<mutexKind, maxIdleSize, maxIdleTime>>
locals == <<arg, saved, cnt, ret, outcome>>

\* ------------------------------------------------------------- Go maps
EmptyMap == [x \in {} |-> 0]

Put(m, k, v) == [x \in (DOMAIN m) \cup {k} |-> IF x = k THEN v ELSE m[x]]

Del(m, k) == [x \in (DOMAIN m) \ {k} |-> m[x]]

Len(m) == Cardinality(DOMAIN m)

Before_orEqual(a, b) == a <= b

\* time.Time.Before
Before(a, b) == a < b

\* ------------------------------------------------------------ the mutex
\* PoolMutex.Lock may return: always for a MockMutex, for a sync.Mutex only
\* when nobody holds it (the mutex is not reentrant).
CanLock(h) == mutexKind = "mock" \/ h = 0

\* the holder after p's Lock() returned
MutexLock(h, p) == IF mutexKind = "sync" THEN p ELSE h

MutexUnlock_forgotten(h) == h

\* the holder after Unlock()
MutexUnlock(h) == IF mutexKind = "sync" THEN 0 ELSE h

\* --------------------------------------------------------- pure helpers
getValidTimestamp(t, d) == t - d

Expired(ts, valid) == Before(ts, valid)

deleteInvalidIdleResources_none(m, valid) == m

deleteInvalidIdleResources(m, valid) ==
    [x \in {k \in DOMAIN m : ~Expired(m[k], valid)} |-> m[x]]

creator_sameId(id) == IF id = 0 THEN 1 ELSE id

\* the creator closure: id += 1; return MockResource{id}, nil
creator(id) == id + 1

\* ---------------------------------------------------------------- Init
\* The maps of a test literal: disjoint, stamped now or in the past, the idle
\* map within the cap (as in every test case).
TestMaps ==
    {mm \in [Resources -> {"none", "lock", "unlock"}] \X [Resources -> (0 - MaxAge)..0] :
        \A r \in Resources : mm[1][r] = "none" => mm[2][r] = 0}

MapOf(mm, which) == [x \in {r \in Resources : mm[1][r] = which} |-> mm[2][x]]

Init ==
    /\ mutexKind \in {"sync", "mock"}
    /\ maxIdleSize \in 0..MaxIdleSizeBound
    /\ maxIdleTime \in 0..MaxIdleTimeBound
    /\ \/ mutexKind = "sync" /\ lock = EmptyMap /\ unlock = EmptyMap
       \/ /\ mutexKind = "mock"
          /\ \E mm \in TestMaps :
                /\ lock = MapOf(mm, "lock")
                /\ unlock = MapOf(mm, "unlock")
          /\ Len(unlock) <= maxIdleSize
    /\ holder = 0
    /\ now = 0
    /\ nextId = 0
    /\ pc = [p \in Procs |-> "idle"]
    /\ arg = [p \in Procs |-> 0]
    /\ saved = [p \in Procs |-> 0]
    /\ cnt = [p \in Procs |-> 0]
    /\ ret = [p \in Procs |-> 0]
    /\ outcome = [p \in Procs |-> "none"]
    /\ snap = [lock |-> EmptyMap, unlock |-> EmptyMap]
    /\ sweepValid = 0
    /\ calls = 0
    /\ out = {}

\* A goroutine may start a call: any goroutine of a New pool between calls,
\* the single test goroutine of a test pool once.
CanCall(p) ==
    \/ mutexKind = "sync" /\ pc[p] = "idle"
    \/ mutexKind = "mock" /\ p = 1 /\ pc[p] = "idle"

Goto(p, l) == pc' = [pc EXCEPT ![p] = l]

\* The call is over: its locals are gone. A goroutine of a New pool may call
\* again, the test goroutine is done.
Returned(p) ==
    /\ Goto(p, IF mutexKind = "sync" THEN "idle" ELSE "done")
    /\ arg' = [arg EXCEPT ![p] = 0]
    /\ saved' = [saved EXCEPT ![p] = 0]
    /\ cnt' = [cnt EXCEPT ![p] = 0]
    /\ ret' = [ret EXCEPT ![p] = 0]
    /\ outcome' = [outcome EXCEPT ![p] = "none"]
    /\ snap' = [lock |-> EmptyMap, unlock |-> EmptyMap]
    /\ sweepValid' = 0
    /\ calls' = 0

\* time passes
Tick ==
    /\ now < MaxTime
    /\ now' = now + 1
    /\ UNCHANGED <<poolCfg, lock, unlock, holder, nextId, pc, locals, snap, sweepValid, calls, out>>

\* ------------------------------------------------------------- Acquire
Acquire_Call(p) ==
    /\ CanCall(p)
    /\ Goto(p, "acq_lock")
    /\ UNCHANGED <<poolCfg, lock, unlock, holder, now, nextId, locals, snap, sweepValid, calls, out>>

\* n.mutex.Lock()
Acquire_Lock(p) ==
    /\ pc[p] = "acq_lock"
    /\ CanLock(holder)
    /\ holder' = MutexLock(holder, p)
    /\ snap' = [lock |-> lock, unlock |-> unlock]
    /\ Goto(p, "acq_sweep")
    /\ UNCHANGED <<poolCfg, lock, unlock, now, nextId, locals, sweepValid, calls, out>>

\* n.deleteInvalidIdleResources()
Acquire_Sweep(p) ==
    /\ pc[p] = "acq_sweep"
    /\ sweepValid' = getValidTimestamp(now, maxIdleTime)
    /\ unlock' = deleteInvalidIdleResources(unlock, getValidTimestamp(now, maxIdleTime))
    /\ Goto(p, "acq_idle")
    /\ UNCHANGED <<poolCfg, lock, holder, now, nextId, locals, snap, calls, out>>

Acquire_GetIdle_keeps(p) ==
    /\ pc[p] = "acq_idle"
    /\ \/ /\ unlock = EmptyMap
          /\ Goto(p, "acq_create")
          /\ UNCHANGED <<unlock, arg>>
       \/ \E r \in DOMAIN unlock :
             /\ unlock' = unlock
             /\ arg' = [arg EXCEPT ![p] = r]
             /\ Goto(p, "acq_mark")
    /\ UNCHANGED <<poolCfg, lock, holder, now, nextId, saved, cnt, ret, outcome,
                   snap, sweepValid, calls, out>>

Acquire_GetIdle_ignoresIdle(p) ==
    /\ pc[p] = "acq_idle"
    /\ Goto(p, "acq_create")
    /\ UNCHANGED <<unlock, arg>>
    /\ UNCHANGED <<poolCfg, lock, holder, now, nextId, saved, cnt, ret, outcome,
                   snap, sweepValid, calls, out>>

\* getIdleResource: the range over n.unlock yields any entry, or none;
\* delete(n.unlock, resource)
Acquire_GetIdle(p) ==
    /\ pc[p] = "acq_idle"
    /\ \/ /\ unlock = EmptyMap
          /\ Goto(p, "acq_create")
          /\ UNCHANGED <<unlock, arg>>
       \/ \E r \in DOMAIN unlock :
             /\ unlock' = Del(unlock, r)
             /\ arg' = [arg EXCEPT ![p] = r]
             /\ Goto(p, "acq_mark")
    /\ UNCHANGED <<poolCfg, lock, holder, now, nextId, saved, cnt, ret, outcome,
                   snap, sweepValid, calls, out>>

Acquire_MarkUsed_keepsIdleTime(p) ==
    /\ pc[p] = "acq_mark"
    /\ lock' = Put(lock, arg[p], snap.unlock[arg[p]])
    /\ ret' = [ret EXCEPT ![p] = arg[p]]
    /\ outcome' = [outcome EXCEPT ![p] = "reused"]
    /\ Goto(p, "acq_unlock")
    /\ UNCHANGED <<poolCfg, unlock, holder, now, nextId, arg, saved, cnt, snap,
                   sweepValid, calls, out>>

\* getIdleResource: n.lock[resource] = time.Now(); return resource, true
Acquire_MarkUsed(p) ==
    /\ pc[p] = "acq_mark"
    /\ lock' = Put(lock, arg[p], now)
    /\ ret' = [ret EXCEPT ![p] = arg[p]]
    /\ outcome' = [outcome EXCEPT ![p] = "reused"]
    /\ Goto(p, "acq_unlock")
    /\ UNCHANGED <<poolCfg, unlock, holder, now, nextId, arg, saved, cnt, snap,
                   sweepValid, calls, out>>

Acquire_Create_storesFirst(p) ==
    /\ pc[p] = "acq_create"
    /\ \/ /\ nextId < MaxId
          /\ nextId' = creator(nextId)
          /\ arg' = [arg EXCEPT ![p] = creator(nextId)]
          /\ Goto(p, "acq_store")
          /\ UNCHANGED <<lock, ret, outcome>>
       \/ /\ lock' = Put(lock, 0, now)
          /\ ret' = [ret EXCEPT ![p] = 0]
          /\ outcome' = [outcome EXCEPT ![p] = "error"]
          /\ Goto(p, "acq_unlock")
          /\ UNCHANGED <<nextId, arg>>
    /\ calls' = calls + 1
    /\ UNCHANGED <<poolCfg, unlock, holder, now, saved, cnt, snap, sweepValid, out>>

\* resource, err := n.creator(ctx): the creator returns the next id, or an
\* error; on an error Acquire returns the zero value and the error
Acquire_Create(p) ==
    /\ pc[p] = "acq_create"
    /\ \/ /\ nextId < MaxId
          /\ nextId' = creator(nextId)
          /\ arg' = [arg EXCEPT ![p] = creator(nextId)]
          /\ Goto(p, "acq_store")
          /\ UNCHANGED <<lock, ret, outcome>>
       \/ /\ ret' = [ret EXCEPT ![p] = 0]
          /\ outcome' = [outcome EXCEPT ![p] = "error"]
          /\ Goto(p, "acq_unlock")
          /\ UNCHANGED <<lock, nextId, arg>>
    /\ calls' = calls + 1
    /\ UNCHANGED <<poolCfg, unlock, holder, now, saved, cnt, snap, sweepValid, out>>

Acquire_Store_forgets(p) ==
    /\ pc[p] = "acq_store"
    /\ lock' = lock
    /\ ret' = [ret EXCEPT ![p] = arg[p]]
    /\ outcome' = [outcome EXCEPT ![p] = "created"]
    /\ Goto(p, "acq_unlock")
    /\ UNCHANGED <<poolCfg, unlock, holder, now, nextId, arg, saved, cnt, snap,
                   sweepValid, calls, out>>

\* n.lock[resource] = time.Now(); return resource, nil
Acquire_Store(p) ==
    /\ pc[p] = "acq_store"
    /\ lock' = Put(lock, arg[p], now)
    /\ ret' = [ret EXCEPT ![p] = arg[p]]
    /\ outcome' = [outcome EXCEPT ![p] = "created"]
    /\ Goto(p, "acq_unlock")
    /\ UNCHANGED <<poolCfg, unlock, holder, now, nextId, arg, saved, cnt, snap,
                   sweepValid, calls, out>>

\* the deferred n.mutex.Unlock(), and the return to the caller
Acquire_Return(p) ==
    /\ pc[p] = "acq_unlock"
    /\ holder' = MutexUnlock(holder)
    /\ out' = IF outcome[p] \in {"reused", "created"} THEN out \cup {ret[p]} ELSE out
    /\ Returned(p)
    /\ UNCHANGED <<poolCfg, lock, unlock, now, nextId>>

\* ------------------------------------------------------------- Release
Release_Call(p, r) ==
    /\ CanCall(p)
    /\ Goto(p, "rel_lock")
    /\ arg' = [arg EXCEPT ![p] = r]
    /\ out' = out \ {r}
    /\ UNCHANGED <<poolCfg, lock, unlock, holder, now, nextId, saved, cnt, ret, outcome,
                   snap, sweepValid, calls>>

\* n.mutex.Lock()
Release_Lock(p) ==
    /\ pc[p] = "rel_lock"
    /\ CanLock(holder)
    /\ holder' = MutexLock(holder, p)
    /\ snap' = [lock |-> lock, unlock |-> unlock]
    /\ Goto(p, "rel_lookup")
    /\ UNCHANGED <<poolCfg, lock, unlock, now, nextId, locals, sweepValid, calls, out>>

Release_Lookup_noReturn(p) ==
    /\ pc[p] = "rel_lookup"
    /\ IF arg[p] \in DOMAIN lock
       THEN /\ saved' = [saved EXCEPT ![p] = lock[arg[p]]]
            /\ Goto(p, "rel_delete")
            /\ UNCHANGED outcome
       ELSE /\ saved' = [saved EXCEPT ![p] = 0]
            /\ Goto(p, "rel_delete")
            /\ UNCHANGED outcome
    /\ UNCHANGED <<poolCfg, lock, unlock, holder, now, nextId, arg, cnt, ret, snap,
                   sweepValid, calls, out>>

\* savedTimestamp, isFound := n.lock[resource]; if !isFound { return }
Release_Lookup(p) ==
    /\ pc[p] = "rel_lookup"
    /\ IF arg[p] \in DOMAIN lock
       THEN /\ saved' = [saved EXCEPT ![p] = lock[arg[p]]]
            /\ Goto(p, "rel_delete")
            /\ UNCHANGED outcome
       ELSE /\ outcome' = [outcome EXCEPT ![p] = "unknown"]
            /\ Goto(p, "rel_unlock")
            /\ UNCHANGED saved
    /\ UNCHANGED <<poolCfg, lock, unlock, holder, now, nextId, arg, cnt, ret, snap,
                   sweepValid, calls, out>>

\* delete(n.lock, resource)
Release_Delete(p) ==
    /\ pc[p] = "rel_delete"
    /\ lock' = Del(lock, arg[p])
    /\ Goto(p, "rel_check")
    /\ UNCHANGED <<poolCfg, unlock, holder, now, nextId, locals, snap, sweepValid, calls, out>>

Release_CheckExpired_skips(p) ==
    /\ pc[p] = "rel_check"
    /\ IF FALSE
       THEN /\ outcome' = [outcome EXCEPT ![p] = "stale"]
            /\ Goto(p, "rel_unlock")
       ELSE /\ Goto(p, "rel_numidle")
            /\ UNCHANGED outcome
    /\ sweepValid' = getValidTimestamp(now, maxIdleTime)
    /\ UNCHANGED <<poolCfg, lock, unlock, holder, now, nextId, arg, saved, cnt, ret,
                   snap, calls, out>>

\* validTimestamp := n.getValidTimestamp();
\* if savedTimestamp.Before(validTimestamp) { return }
Release_CheckExpired(p) ==
    /\ pc[p] = "rel_check"
    /\ IF Expired(saved[p], getValidTimestamp(now, maxIdleTime))
       THEN /\ outcome' = [outcome EXCEPT ![p] = "stale"]
            /\ Goto(p, "rel_unlock")
       ELSE /\ Goto(p, "rel_numidle")
            /\ UNCHANGED outcome
    /\ sweepValid' = getValidTimestamp(now, maxIdleTime)
    /\ UNCHANGED <<poolCfg, lock, unlock, holder, now, nextId, arg, saved, cnt, ret,
                   snap, calls, out>>

\* n.NumIdle() called from Release: its n.mutex.Lock(), with Release's own
\* Lock() still in force
Release_NumIdleLock(p) ==
    /\ pc[p] = "rel_numidle"
    /\ CanLock(holder)
    /\ holder' = MutexLock(holder, p)
    /\ Goto(p, "rel_numidle_body")
    /\ UNCHANGED <<poolCfg, lock, unlock, now, nextId, locals, snap, sweepValid, calls, out>>

Release_NumIdleReturn_countsFresh(p) ==
    /\ pc[p] = "rel_numidle_body"
    /\ cnt' = [cnt EXCEPT ![p] = Len(deleteInvalidIdleResources(unlock, sweepValid))]
    /\ holder' = MutexUnlock(holder)
    /\ Goto(p, "rel_cap")
    /\ UNCHANGED <<poolCfg, lock, unlock, now, nextId, arg, saved, ret, outcome, snap,
                   sweepValid, calls, out>>

\* n.NumIdle() called from Release: return len(n.unlock), deferred Unlock()
Release_NumIdleReturn(p) ==
    /\ pc[p] = "rel_numidle_body"
    /\ cnt' = [cnt EXCEPT ![p] = Len(unlock)]
    /\ holder' = MutexUnlock(holder)
    /\ Goto(p, "rel_cap")
    /\ UNCHANGED <<poolCfg, lock, unlock, now, nextId, arg, saved, ret, outcome, snap,
                   sweepValid, calls, out>>

IdleFull_offByOne(n, cap) == n > cap

\* n.NumIdle() >= n.maxIdleSize
IdleFull(n, cap) == n >= cap

\* if n.NumIdle() >= n.maxIdleSize { return }
Release_CheckCap(p) ==
    /\ pc[p] = "rel_cap"
    /\ IF IdleFull(cnt[p], maxIdleSize)
       THEN /\ outcome' = [outcome EXCEPT ![p] = "full"]
            /\ Goto(p, "rel_unlock")
       ELSE /\ Goto(p, "rel_insert")
            /\ UNCHANGED outcome
    /\ UNCHANGED <<poolCfg, lock, unlock, holder, now, nextId, arg, saved, cnt, ret,
                   snap, sweepValid, calls, out>>

\* n.unlock[resource] = time.Now()
Release_Insert(p) ==
    /\ pc[p] = "rel_insert"
    /\ unlock' = Put(unlock, arg[p], now)
    /\ outcome' = [outcome EXCEPT ![p] = "idle"]
    /\ Goto(p, "rel_unlock")
    /\ UNCHANGED <<poolCfg, lock, holder, now, nextId, arg, saved, cnt, ret, snap,
                   sweepValid, calls, out>>

\* the deferred n.mutex.Unlock(), and the return to the caller
Release_Return(p) ==
    /\ pc[p] = "rel_unlock"
    /\ holder' = MutexUnlock(holder)
    /\ UNCHANGED out
    /\ Returned(p)
    /\ UNCHANGED <<poolCfg, lock, unlock, now, nextId>>

\* ------------------------------------------------------------- NumIdle
NumIdle_Call(p) ==
    /\ CanCall(p)
    /\ Goto(p, "ni_lock")
    /\ UNCHANGED <<poolCfg, lock, unlock, holder, now, nextId, locals, snap, sweepValid, calls, out>>

\* n.mutex.Lock()
NumIdle_Lock(p) ==
    /\ pc[p] = "ni_lock"
    /\ CanLock(holder)
    /\ holder' = MutexLock(holder, p)
    /\ snap' = [lock |-> lock, unlock |-> unlock]
    /\ Goto(p, "ni_read")
    /\ UNCHANGED <<poolCfg, lock, unlock, now, nextId, locals, sweepValid, calls, out>>

NumIdle_Read_sweeps(p) ==
    /\ pc[p] = "ni_read"
    /\ unlock' = deleteInvalidIdleResources(unlock, getValidTimestamp(now, maxIdleTime))
    /\ ret' = [ret EXCEPT ![p] = Len(unlock')]
    /\ outcome' = [outcome EXCEPT ![p] = "count"]
    /\ Goto(p, "ni_unlock")
    /\ UNCHANGED <<poolCfg, lock, holder, now, nextId, arg, saved, cnt, snap,
                   sweepValid, calls, out>>

\* return len(n.unlock)
NumIdle_Read(p) ==
    /\ pc[p] = "ni_read"
    /\ ret' = [ret EXCEPT ![p] = Len(unlock)]
    /\ outcome' = [outcome EXCEPT ![p] = "count"]
    /\ Goto(p, "ni_unlock")
    /\ UNCHANGED <<poolCfg, lock, unlock, holder, now, nextId, arg, saved, cnt, snap,
                   sweepValid, calls, out>>

\* the deferred n.mutex.Unlock(), and the return to the caller
NumIdle_Return(p) ==
    /\ pc[p] = "ni_unlock"
    /\ holder' = MutexUnlock(holder)
    /\ UNCHANGED out
    /\ Returned(p)
    /\ UNCHANGED <<poolCfg, lock, unlock, now, nextId>>

\* ------------------------------------------------------- specification
\* a goroutine waiting in a Lock()
LockStep(p) ==
    \/ Acquire_Lock(p)
    \/ Release_Lock(p)
    \/ Release_NumIdleLock(p)
    \/ NumIdle_Lock(p)

\* a goroutine running on inside a call
BodyStep(p) ==
    \/ Acquire_Sweep(p)
    \/ Acquire_GetIdle(p)
    \/ Acquire_MarkUsed(p)
    \/ Acquire_Create(p)
    \/ Acquire_Store(p)
    \/ Acquire_Return(p)
    \/ Release_Lookup(p)
    \/ Release_Delete(p)
    \/ Release_CheckExpired(p)
    \/ Release_NumIdleReturn(p)
    \/ Release_CheckCap(p)
    \/ Release_Insert(p)
    \/ Release_Return(p)
    \/ NumIdle_Read(p)
    \/ NumIdle_Return(p)

Next ==
    \/ Tick
    \/ \E p \in Procs : Acquire_Call(p)
    \/ \E p \in Procs : Acquire_Lock(p)
    \/ \E p \in Procs : Acquire_Sweep(p)
    \/ \E p \in Procs : Acquire_GetIdle(p)
    \/ \E p \in Procs : Acquire_MarkUsed(p)
    \/ \E p \in Procs : Acquire_Create(p)
    \/ \E p \in Procs : Acquire_Store(p)
    \/ \E p \in Procs : Acquire_Return(p)
    \/ \E p \in Procs : \E r \in Resources : Release_Call(p, r)
    \/ \E p \in Procs : Release_Lock(p)
    \/ \E p \in Procs : Release_Lookup(p)
    \/ \E p \in Procs : Release_Delete(p)
    \/ \E p \in Procs : Release_CheckExpired(p)
    \/ \E p \in Procs : Release_NumIdleLock(p)
    \/ \E p \in Procs : Release_NumIdleReturn(p)
    \/ \E p \in Procs : Release_CheckCap(p)
    \/ \E p \in Procs : Release_Insert(p)
    \/ \E p \in Procs : Release_Return(p)
    \/ \E p \in Procs : NumIdle_Call(p)
    \/ \E p \in Procs : NumIdle_Lock(p)
    \/ \E p \in Procs : NumIdle_Read(p)
    \/ \E p \in Procs : NumIdle_Return(p)

Spec == Init /\ [][Next]_vars

\* The Go scheduler runs every runnable goroutine, and a sync.Mutex hands the
\* lock to a goroutine that has waited long (starvation mode): a goroutine
\* inside a call goes on, and one waiting in Lock() gets the lock if it is
\* free again and again.
FairSpec ==
    /\ Spec
    /\ \A p \in Procs : WF_vars(BodyStep(p))
    /\ \A p \in Procs : SF_vars(LockStep(p))

TypeOK ==
    /\ mutexKind \in {"sync", "mock"}
    /\ holder \in 0..NumProcs
    /\ now \in 0..MaxTime
    /\ nextId \in 0..MaxId
    /\ DOMAIN lock \subseteq 0..MaxId
    /\ DOMAIN unlock \subseteq Resources

\* ------------------------------------------------------------- claims
\* the positions between a call's Lock() and its deferred Unlock()
AcquireBody == {"acq_sweep", "acq_idle", "acq_mark", "acq_create", "acq_store", "acq_unlock"}

ReleaseBody == {"rel_lookup", "rel_delete", "rel_check", "rel_numidle", "rel_numidle_body",
                "rel_cap", "rel_insert", "rel_unlock"}

NumIdleBody == {"ni_read", "ni_unlock"}

Body == AcquireBody \cup ReleaseBody \cup NumIdleBody

\* the call has returned to its caller
Back(p) == pc[p] \in {"idle", "done"}

\* C1: no resource is a key of the in-use map and of the idle map at once, in
\* every reachable state, the states inside a call included.
C1_Disjoint == (DOMAIN lock) \cap (DOMAIN unlock) = {}

\* a New pool inside a Release that has taken a fresh resource out of the
\* in-use map, another resource still in use
C1_Witness ==
    /\ mutexKind = "sync"
    /\ lock # EmptyMap
    /\ \E p \in Procs : pc[p] = "rel_numidle" /\ arg[p] \notin DOMAIN lock

\* C2: a Release of a New pool that has obtained the lock returns to its caller,
\* on every path.
C2_ReleaseReturns ==
    \A p \in Procs : (mutexKind = "sync" /\ pc[p] = "rel_lookup") ~> Back(p)

\* C3: a Release(R) that found R in use and fresh while the idle map has room
\* completes with R out of the in-use map and in the idle map, stamped no later
\* than now, every other entry of both maps as before the call.
C3_HappyPath ==
    \A p \in Procs :
        (pc[p] = "rel_numidle" /\ Len(unlock) < maxIdleSize)
        ~> (/\ pc[p] = "rel_unlock"
            /\ outcome[p] = "idle"
            /\ arg[p] \in DOMAIN unlock
            /\ unlock[arg[p]] <= now
            /\ lock = Del(snap.lock, arg[p])
            /\ Del(unlock, arg[p]) = snap.unlock)

\* C4: on an empty New pool with maxIdleSize >= 1, after Acquire created R1 (the
\* creator's first resource) a Release(R1) in time ends with the in-use map empty
\* and idle = {R1}.
C4_RoundTrip ==
    \A p \in Procs :
        (/\ mutexKind = "sync"
         /\ maxIdleSize >= 1
         /\ nextId = 1
         /\ pc[p] = "rel_numidle"
         /\ arg[p] = 1
         /\ DOMAIN snap.lock = {1}
         /\ unlock = EmptyMap)
        ~> (pc[p] = "rel_unlock" /\ lock = EmptyMap /\ DOMAIN unlock = {1})

C6_IdleCap == Len(unlock) <= maxIdleSize

\* a Release has just put a resource into the idle map and filled it to the cap
C6_Witness ==
    \E p \in Procs :
        /\ pc[p] = "rel_unlock"
        /\ outcome[p] = "idle"
        /\ Len(unlock) = maxIdleSize

C8_AcquireReturns ==
    \A p \in Procs : (mutexKind = "sync" /\ pc[p] = "acq_lock") ~> Back(p)

\* C9 as stated: when the creator fails, both maps are as they were before the
\* call.
C9_Unchanged ==
    \A p \in Procs :
        (pc[p] = "acq_unlock" /\ outcome[p] = "error")
        => (lock = snap.lock /\ unlock = snap.unlock)

\* C9: when the creator fails, Acquire returns the error with the in-use map as
\* before the call and the idle map empty: the idle map before the call less the
\* entries the sweep found expired, which were all of them.
C9_FactoryFailure ==
    \A p \in Procs :
        (pc[p] = "acq_unlock" /\ outcome[p] = "error")
        => /\ ret[p] = 0
           /\ lock = snap.lock
           /\ unlock = deleteInvalidIdleResources(snap.unlock, sweepValid)
           /\ unlock = EmptyMap

\* the creator failed in an Acquire whose sweep emptied a non-empty idle map
C9_Witness ==
    \E p \in Procs :
        /\ pc[p] = "acq_unlock"
        /\ outcome[p] = "error"
        /\ snap.unlock # EmptyMap
        /\ snap.lock # EmptyMap

\* C10: a Release of a resource that was not in the in-use map changes neither
\* map, goes from the lookup straight to its return, and can return.
C10_UnknownRelease ==
    \A p \in Procs :
        (pc[p] \in ReleaseBody /\ arg[p] \notin DOMAIN snap.lock)
        => /\ lock = snap.lock
           /\ unlock = snap.unlock
           /\ pc[p] \in {"rel_lookup", "rel_unlock"}
           /\ pc[p] = "rel_unlock" => (outcome[p] = "unknown" /\ ENABLED Release_Return(p))

\* a Release of a resource that is idle, not in use, is about to return
C10_Witness ==
    \E p \in Procs :
        /\ pc[p] = "rel_unlock"
        /\ outcome[p] = "unknown"
        /\ arg[p] \in DOMAIN unlock
        /\ lock # EmptyMap

\* the positions of Acquire after its sweep
AfterSweep == {"acq_idle", "acq_mark", "acq_create", "acq_store", "acq_unlock"}

\* the entries of the idle map at the call's Lock() that its validTimestamp
\* finds unexpired
FreshIdle == {r \in DOMAIN snap.unlock : ~(snap.unlock[r] < sweepValid)}

\* ... and those it finds expired
ExpiredIdle == {r \in DOMAIN snap.unlock : snap.unlock[r] < sweepValid}

\* C11 as stated: with an unexpired idle entry at the sweep, Acquire returns a
\* member of idle without calling the creator and without an error, and idle
\* loses exactly that one resource, which is added to the in-use map.
C11_ExactlyOne ==
    \A p \in Procs :
        (pc[p] = "acq_unlock" /\ FreshIdle # {})
        => /\ outcome[p] = "reused"
           /\ calls = 0
           /\ ret[p] \in DOMAIN snap.unlock
           /\ unlock = Del(snap.unlock, ret[p])
           /\ ret[p] \in DOMAIN lock
           /\ Del(lock, ret[p]) = snap.lock

\* C11: with an unexpired idle entry at the sweep, Acquire never reaches the
\* creator and returns, without an error, an unexpired member of idle; idle loses
\* that resource and the entries the sweep found expired, nothing else, and the
\* resource is added to the in-use map.
C11_Reuse ==
    \A p \in Procs :
        (pc[p] \in AfterSweep /\ FreshIdle # {})
        => /\ pc[p] \notin {"acq_create", "acq_store"}
           /\ calls = 0
           /\ pc[p] = "acq_unlock" =>
                /\ outcome[p] = "reused"
                /\ ret[p] \in FreshIdle
                /\ DOMAIN unlock = FreshIdle \ {ret[p]}
                /\ \A r \in DOMAIN unlock : unlock[r] = snap.unlock[r]
                /\ ret[p] \in DOMAIN lock
                /\ Del(lock, ret[p]) = snap.lock

\* an Acquire is about to return an idle resource, having swept another one
C11_Witness ==
    \E p \in Procs :
        /\ pc[p] = "acq_unlock"
        /\ outcome[p] = "reused"
        /\ ExpiredIdle # {}
        /\ ret[p] \in DOMAIN lock

\* C12: when the sweep leaves no idle entry, Acquire invokes the creator exactly
\* once and returns what it produced: the new resource, which is then a key of
\* the in-use map stamped no later than now, or the zero value with the error.
\* No Acquire invokes the creator twice.
C12_Fallback ==
    /\ calls <= 1
    /\ \A p \in Procs :
          (pc[p] = "acq_unlock" /\ FreshIdle = {})
          => /\ calls = 1
             /\ outcome[p] \in {"created", "error"}
             /\ outcome[p] = "created" =>
                  (ret[p] = nextId /\ ret[p] \in DOMAIN lock /\ lock[ret[p]] <= now)
             /\ outcome[p] = "error" => ret[p] = 0

\* an Acquire whose sweep emptied the idle map is about to return the resource
\* the creator made
C12_Witness ==
    \E p \in Procs :
        /\ pc[p] = "acq_unlock"
        /\ outcome[p] = "created"
        /\ snap.unlock # EmptyMap
        /\ unlock = EmptyMap

AfterCheck == {"rel_numidle", "rel_numidle_body", "rel_cap", "rel_insert", "rel_unlock"}

\* C14: a Release(R) that found R in use with a checkout timestamp older than
\* its validTimestamp goes straight to its return with R out of the in-use map,
\* nothing else changed there, and the idle map as before, room or no room; and
\* it can return.
C14_StaleRelease ==
    \A p \in Procs :
        (/\ pc[p] \in AfterCheck
         /\ arg[p] \in DOMAIN snap.lock
         /\ snap.lock[arg[p]] < sweepValid)
        => /\ pc[p] = "rel_unlock"
           /\ outcome[p] = "stale"
           /\ lock = Del(snap.lock, arg[p])
           /\ unlock = snap.unlock
           /\ ENABLED Release_Return(p)

\* a New pool with room in the idle map is about to return from a stale Release
C14_Witness ==
    \E p \in Procs :
        /\ mutexKind = "sync"
        /\ pc[p] = "rel_unlock"
        /\ outcome[p] = "stale"
        /\ Len(unlock) < maxIdleSize
        /\ lock # EmptyMap

\* C15: a Release(R) that found R in use and fresh while the idle map holds
\* maxIdleSize entries completes with R out of the in-use map and the idle map
\* as before the call.
C15_CapacityDiscard ==
    \A p \in Procs :
        (pc[p] = "rel_numidle" /\ Len(unlock) = maxIdleSize)
        ~> (/\ pc[p] = "rel_unlock"
            /\ outcome[p] = "full"
            /\ lock = Del(snap.lock, arg[p])
            /\ unlock = snap.unlock)

\* C16: NumIdle returns the number of entries of the idle map and changes
\* neither map; expired entries are counted.
C16_NumIdle ==
    \A p \in Procs :
        pc[p] = "ni_unlock"
        => /\ ret[p] = Len(snap.unlock)
           /\ unlock = snap.unlock
           /\ lock = snap.lock

\* NumIdle is about to return a count that includes an expired entry
C16_Witness ==
    \E p \in Procs :
        /\ pc[p] = "ni_unlock"
        /\ ret[p] >= 1
        /\ \E r \in DOMAIN unlock : unlock[r] < now - maxIdleTime

\* C17: a resource a successful Acquire returns is a key of the in-use map
\* stamped with a time of that Acquire: not before its sweep read the clock, not
\* after now; on the reuse path too, whatever the idle timestamp was. A Release
\* measures staleness on the timestamp it finds in the in-use map.
C17_CheckoutTime ==
    \A p \in Procs :
        /\ (pc[p] = "acq_unlock" /\ outcome[p] \in {"reused", "created"})
           => /\ ret[p] \in DOMAIN lock
              /\ lock[ret[p]] <= now
              /\ lock[ret[p]] >= sweepValid + maxIdleTime
        /\ (pc[p] \in {"rel_delete", "rel_check"} \cup AfterCheck /\ arg[p] \in DOMAIN snap.lock)
           => saved[p] = snap.lock[arg[p]]

\* an Acquire is about to return a reused resource with a checkout timestamp
\* later than its idle timestamp
C17_Witness ==
    \E p \in Procs :
        /\ pc[p] = "acq_unlock"
        /\ outcome[p] = "reused"
        /\ snap.unlock[ret[p]] < lock[ret[p]]

\* C18: when Acquire returns, the idle map is the idle map before the call less
\* the entries strictly older than the sweep's validTimestamp and less the
\* returned resource if it was reused, the timestamps of the rest unchanged (an
\* entry whose age equals maxIdleTime stays); the in-use map is as before except
\* for the entry of the returned resource.
C18_AcquireFrame ==
    \A p \in Procs :
        pc[p] = "acq_unlock"
        => /\ DOMAIN unlock = FreshIdle \ (IF outcome[p] = "reused" THEN {ret[p]} ELSE {})
           /\ \A r \in DOMAIN unlock : unlock[r] = snap.unlock[r]
           /\ outcome[p] = "reused" => ret[p] \in FreshIdle
           /\ outcome[p] = "error" => lock = snap.lock
           /\ outcome[p] # "error" =>
                /\ DOMAIN lock = (DOMAIN snap.lock) \cup {ret[p]}
                /\ \A r \in (DOMAIN snap.lock) \ {ret[p]} : lock[r] = snap.lock[r]

\* an Acquire is about to return a reused resource and has left in idle an
\* entry whose age was exactly maxIdleTime at the sweep
C18_Witness ==
    \E p \in Procs :
        /\ pc[p] = "acq_unlock"
        /\ outcome[p] = "reused"
        /\ \E r \in DOMAIN unlock : unlock[r] = sweepValid

\* C19: a Release never removes or re-stamps an entry the idle map had at its
\* Lock(), and when that map held maxIdleSize entries or more, expired ones
\* counted, the released resource is not put into it.
C19_ReleaseFrame ==
    \A p \in Procs :
        pc[p] \in ReleaseBody
        => /\ \A r \in DOMAIN snap.unlock : r \in DOMAIN unlock /\ unlock[r] = snap.unlock[r]
           /\ Len(snap.unlock) >= maxIdleSize
              => (pc[p] # "rel_insert" /\ unlock = snap.unlock)

\* a Release of a fresh resource is about to return without pooling it; the
\* idle map is full and all its entries are expired
C19_Witness ==
    \E p \in Procs :
        /\ pc[p] = "rel_unlock"
        /\ outcome[p] = "full"
        /\ maxIdleSize >= 1
        /\ Len(unlock) = maxIdleSize
        /\ \A r \in DOMAIN unlock : unlock[r] < sweepValid

\* C20: in a New pool every key of either map is an identity the creator has
\* produced, and the two maps together hold no more entries than the creator
\* has produced resources.
C20_Conservation ==
    mutexKind = "sync"
    => /\ (DOMAIN lock) \cup (DOMAIN unlock) \subseteq 1..nextId
       /\ Len(lock) + Len(unlock) <= nextId

\* a New pool with a resource in use is about to return from a Release of a
\* value the creator never produced
C20_Witness ==
    \E p \in Procs :
        /\ mutexKind = "sync"
        /\ pc[p] = "rel_unlock"
        /\ arg[p] > nextId
        /\ lock # EmptyMap

====
